---- MODULE Spec2Model ----
(***************************************************************************)
(* Model of the request-authentication pipeline of FarmerMarketSystem:     *)
(*   - the CSRF guard (backend/internal/utils/csrf.go: SetCSRFToken,       *)
(*     ValidateCSRFToken), on concurrent requests;                         *)
(*   - the route tables registered by the two versions of main, and the    *)
(*     middleware chain a request runs through on a route.                 *)
(* Text is modelled as sequences of byte values (ASCII codes).             *)
(***************************************************************************)
EXTENDS Integers, Sequences, FiniteSets, TLC

VARIABLES pc, form, cookies, respCookies, randErr, ret, now, jar,
          table, sessions, apc, areq, layer, authState, authHist,
          lookup, identity, status, calls

csrfVars == <<pc, form, cookies, respCookies, randErr, ret, now, jar>>
authVars == <<table, sessions, apc, areq, layer, authState, authHist,
              lookup, identity, status, calls>>
vars == <<pc, form, cookies, respCookies, randErr, ret, now, jar,
          table, sessions, apc, areq, layer, authState, authHist,
          lookup, identity, status, calls>>

(***************************************************************************)
(* Bounds of the model.                                                    *)
(***************************************************************************)
\* the clock runs from 0 to MaxClock seconds
MaxClock == 1
\* the client keeps at most MaxJar issued (form token, cookie) pairs
MaxJar == 1

\* the requests in flight at the same time
Requests == {1, 2}

(***************************************************************************)
(* Program constants.                                                      *)
(***************************************************************************)
\* make([]byte, 32)
TokenLen == 32
\* time.Hour, in seconds
Hour == 3600

Nil == "nil"
ErrRand == "rand: read failed"
ErrNotProvided == "csrf token not provided"
ErrCookieNotFound == "csrf token cookie not found"
ErrInvalid == "invalid csrf token"

CSRFName == "csrf_token"

\* some short texts: "abc", "xyz", the empty text and a lone double quote
abc == <<97, 98, 99>>
xyz == <<120, 121, 122>>
empty == <<>>
quotedAbc == <<34, 97, 98, 99, 34>>
loneQuote == <<34>>

(***************************************************************************)
(* crypto/rand.Read(tokenBytes): fills all 32 bytes or returns an error.   *)
(* The random outputs the model draws from.                                *)
(***************************************************************************)
RandBytes == {0, 251, 255}

RandResults ==
    {[err |-> TRUE, bytes |-> <<>>]} \cup
    {[err |-> FALSE, bytes |-> [i \in 1..TokenLen |-> b]] : b \in RandBytes}

(***************************************************************************)
(* base64.StdEncoding.EncodeToString                                       *)
(***************************************************************************)
PadChar == 61

Alphabet(i) ==
    IF i < 26 THEN 65 + i
    ELSE IF i < 52 THEN 97 + (i - 26)
    ELSE IF i < 62 THEN 48 + (i - 52)
    ELSE IF i = 62 THEN 43
    ELSE 47

EncodedLen(n) == ((n + 2) \div 3) * 4

EncodeToString(src) ==
    LET n == Len(src)
        byte(i) == IF i <= n THEN src[i] ELSE 0
        char(j) ==
            LET g == (j - 1) \div 4
                k == (j - 1) % 4
                m == IF n - 3 * g >= 3 THEN 3 ELSE n - 3 * g
                val == byte(3 * g + 1) * 65536 + byte(3 * g + 2) * 256 + byte(3 * g + 3)
                sextet == IF k = 0 THEN val \div 262144
                          ELSE IF k = 1 THEN (val \div 4096) % 64
                          ELSE IF k = 2 THEN (val \div 64) % 64
                          ELSE val % 64
            IN IF k <= m THEN Alphabet(sextet) ELSE PadChar
    IN [j \in 1..EncodedLen(n) |-> char(j)]

(***************************************************************************)
(* net/http cookies: what http.SetCookie writes and what r.Cookie reads.   *)
(***************************************************************************)
ValidCookieValueByte(b) ==
    /\ 32 <= b
    /\ b < 127
    /\ b \notin {34, 59, 92}

SanitizeCookieValue(v) ==
    LET kept == SelectSeq(v, ValidCookieValueByte)
    IN IF \E i \in 1..Len(kept) : kept[i] \in {32, 44}
       THEN <<34>> \o kept \o <<34>>
       ELSE kept

\* Cookie.String(): the Set-Cookie header of a cookie
CookieString(c) ==
    [name |-> c.Name,
     value |-> SanitizeCookieValue(c.Value),
     path |-> c.Path,
     expires |-> c.Expires,
     httpOnly |-> c.HttpOnly,
     secure |-> c.Secure,
     sameSite |-> c.SameSite]

\* http.SetCookie(w, cookie): adds one Set-Cookie header, unless the name is invalid
SetCookie(w, c) ==
    IF c.Name = "" THEN w ELSE Append(w, CookieString(c))

\* parseCookieValue(raw, allowDoubleQuote = true)
ParseCookieValue(raw) ==
    LET n == Len(raw)
        v == IF n > 1 /\ raw[1] = 34 /\ raw[n] = 34 THEN SubSeq(raw, 2, n - 1) ELSE raw
    IN [ok |-> \A i \in 1..Len(v) : ValidCookieValueByte(v[i]), value |-> v]

\* r.Cookie(name): the first well-formed cookie of that name in the Cookie header
RequestCookie(hdr, name) ==
    LET ok(i) == hdr[i].name = name /\ ParseCookieValue(hdr[i].raw).ok
        idx == {i \in 1..Len(hdr) : ok(i)}
    IN IF idx = {} THEN [found |-> FALSE, value |-> <<>>]
       ELSE LET i == CHOOSE i \in idx : \A j \in idx : i <= j
            IN [found |-> TRUE, value |-> ParseCookieValue(hdr[i].raw).value]

\* r.FormValue(key): the first value of the key, "" when there is none
FormValue(vals) == IF Len(vals) > 0 THEN vals[1] ELSE <<>>

(***************************************************************************)
(* The CSRF guard.                                                         *)
(***************************************************************************)
SameSiteNoneMode == "None"

NoReturn == [op |-> "none", token |-> <<>>, err |-> Nil]

\* a token kept as the raw random bytes, not their base64 text
SetCSRFToken_Raw(w, rnd, t) ==
    IF rnd.err
    THEN [token |-> <<>>, err |-> ErrRand, w |-> w]
    ELSE LET token == rnd.bytes
             cookie == [Name |-> CSRFName, Value |-> token, Path |-> "/",
                        Expires |-> t + 24 * Hour, HttpOnly |-> TRUE,
                        Secure |-> TRUE, SameSite |-> SameSiteNoneMode]
         IN [token |-> token, err |-> Nil, w |-> SetCookie(w, cookie)]

\* the error of rand.Read ignored: a token of the untouched zero buffer is issued
SetCSRFToken_Fallback(w, rnd, t) ==
    LET tokenBytes == IF rnd.err THEN [i \in 1..TokenLen |-> 0] ELSE rnd.bytes
        token == EncodeToString(tokenBytes)
        cookie == [Name |-> CSRFName, Value |-> token, Path |-> "/",
                   Expires |-> t + 24 * Hour, HttpOnly |-> TRUE,
                   Secure |-> TRUE, SameSite |-> SameSiteNoneMode]
    IN [token |-> IF rnd.err THEN <<>> ELSE token,
        err |-> IF rnd.err THEN ErrRand ELSE Nil,
        w |-> SetCookie(w, cookie)]

\* SetCSRFToken(w): rnd is the outcome of rand.Read, t is time.Now()
SetCSRFToken(w, rnd, t) ==
    IF rnd.err
    THEN [token |-> <<>>, err |-> ErrRand, w |-> w]
    ELSE LET token == EncodeToString(rnd.bytes)
             cookie == [Name |-> CSRFName, Value |-> token, Path |-> "/",
                        Expires |-> t + 24 * Hour, HttpOnly |-> TRUE,
                        Secure |-> TRUE, SameSite |-> SameSiteNoneMode]
         IN [token |-> token, err |-> Nil, w |-> SetCookie(w, cookie)]

\* ASCII letters compared without regard to case
Fold(b) == IF 97 <= b /\ b <= 122 THEN b - 32 ELSE b

EqualFold(a, b) ==
    /\ Len(a) = Len(b)
    /\ \A i \in 1..Len(a) : Fold(a[i]) = Fold(b[i])

\* the tokens compared without regard to case
ValidateCSRFToken_Fold(r) ==
    LET formToken == FormValue(form[r])
        cookie == RequestCookie(cookies[r], CSRFName)
    IN IF formToken = <<>> THEN ErrNotProvided
       ELSE IF ~cookie.found THEN ErrCookieNotFound
       ELSE IF ~EqualFold(formToken, cookie.value) THEN ErrInvalid
       ELSE Nil

\* a missing cookie read as a cookie with the empty value
ValidateCSRFToken_NoCookieCheck(r) ==
    LET formToken == FormValue(form[r])
        cookie == RequestCookie(cookies[r], CSRFName)
    IN IF formToken = <<>> THEN ErrNotProvided
       ELSE IF formToken # cookie.value THEN ErrInvalid
       ELSE Nil

\* the cookie looked up before the form field
ValidateCSRFToken_CookieFirst(r) ==
    LET formToken == FormValue(form[r])
        cookie == RequestCookie(cookies[r], CSRFName)
    IN IF ~cookie.found THEN ErrCookieNotFound
       ELSE IF formToken = <<>> THEN ErrNotProvided
       ELSE IF formToken # cookie.value THEN ErrInvalid
       ELSE Nil

\* a token accepted once only: refused when another request already passed with it
ValidateCSRFToken_SingleUse(r) ==
    LET formToken == FormValue(form[r])
        cookie == RequestCookie(cookies[r], CSRFName)
        used == \E q \in Requests \ {r} :
                    /\ ret[q].op = "validate"
                    /\ ret[q].err = Nil
                    /\ FormValue(form[q]) = formToken
    IN IF formToken = <<>> THEN ErrNotProvided
       ELSE IF ~cookie.found THEN ErrCookieNotFound
       ELSE IF formToken # cookie.value \/ used THEN ErrInvalid
       ELSE Nil

\* ValidateCSRFToken(r): compares the form token with the cookie
ValidateCSRFToken(r) ==
    LET formToken == FormValue(form[r])
        cookie == RequestCookie(cookies[r], CSRFName)
    IN IF formToken = <<>> THEN ErrNotProvided
       ELSE IF ~cookie.found THEN ErrCookieNotFound
       ELSE IF formToken # cookie.value THEN ErrInvalid
       ELSE Nil

(***************************************************************************)
(* The requests the CSRF guard is called on.                               *)
(***************************************************************************)
Ck(n, v) == [name |-> n, raw |-> v]

\* r.Form["csrf_token"] of a submitted form
FreeForms == {<<>>, <<empty>>, <<abc>>, <<xyz>>, <<empty, abc>>}

\* Cookie headers of a request
FreeCookies ==
    {<<>>,
     <<Ck(CSRFName, abc)>>,
     <<Ck(CSRFName, empty)>>,
     <<Ck("session_id", abc)>>,
     <<Ck("session_id", xyz), Ck(CSRFName, abc)>>,
     <<Ck(CSRFName, loneQuote)>>,
     <<Ck(CSRFName, quotedAbc)>>,
     <<Ck(CSRFName, xyz), Ck(CSRFName, abc)>>}

\* Set-Cookie headers a handler wrote before it calls SetCSRFToken
PriorHeaders ==
    {<<>>,
     <<[name |-> "session_id", value |-> abc, path |-> "/", expires |-> 0,
        httpOnly |-> TRUE, secure |-> FALSE, sameSite |-> "Lax"]>>}

\* v with one byte replaced
AlterBytes == {66, 97}

Altered(v) ==
    {[v EXCEPT ![i] = b] : i \in {1, Len(v)} \cap DOMAIN v, b \in AlterBytes} \ {v}

\* the submissions a client builds from an issued pair: intact, or one side altered
FromPair(p) ==
    {[form |-> <<p.field>>, cookies |-> <<Ck(CSRFName, p.cookie)>>]} \cup
    {[form |-> <<f>>, cookies |-> <<Ck(CSRFName, p.cookie)>>] : f \in Altered(p.field)} \cup
    {[form |-> <<p.field>>, cookies |-> <<Ck(CSRFName, c)>>] : c \in Altered(p.cookie)}

PostInputs ==
    {[form |-> f, cookies |-> c] : f \in FreeForms, c \in FreeCookies} \cup
    UNION {FromPair(p) : p \in jar}

\* the csrf_token Set-Cookie headers of a response
CSRFHeaders(w) == SelectSeq(w, LAMBDA h : h.name = CSRFName)

CSRFInit ==
    /\ pc = [r \in Requests |-> "idle"]
    /\ form = [r \in Requests |-> <<>>]
    /\ cookies = [r \in Requests |-> <<>>]
    /\ respCookies = [r \in Requests |-> <<>>]
    /\ randErr = [r \in Requests |-> FALSE]
    /\ ret = [r \in Requests |-> NoReturn]
    /\ now = 0
    /\ jar = {}

\* a GET of a page with a form: the handler will call SetCSRFToken
ReceiveGet(r) ==
    /\ pc[r] = "idle"
    /\ \E w \in PriorHeaders, c \in {<<>>, <<Ck(CSRFName, abc)>>} :
          /\ respCookies' = [respCookies EXCEPT ![r] = w]
          /\ cookies' = [cookies EXCEPT ![r] = c]
    /\ form' = [form EXCEPT ![r] = <<>>]
    /\ pc' = [pc EXCEPT ![r] = "render"]
    /\ UNCHANGED <<randErr, ret, now, jar>>

\* a POST of a form: the handler will call ValidateCSRFToken
ReceivePost(r) ==
    /\ pc[r] = "idle"
    /\ \E in \in PostInputs :
          /\ form' = [form EXCEPT ![r] = in.form]
          /\ cookies' = [cookies EXCEPT ![r] = in.cookies]
    /\ respCookies' = [respCookies EXCEPT ![r] = <<>>]
    /\ pc' = [pc EXCEPT ![r] = "submit"]
    /\ UNCHANGED <<randErr, ret, now, jar>>

IssueToken(r) ==
    /\ pc[r] = "render"
    /\ \E rnd \in RandResults :
          LET out == SetCSRFToken(respCookies[r], rnd, now)
          IN /\ randErr' = [randErr EXCEPT ![r] = rnd.err]
             /\ ret' = [ret EXCEPT ![r] = [op |-> "issue", token |-> out.token, err |-> out.err]]
             /\ respCookies' = [respCookies EXCEPT ![r] = out.w]
    /\ pc' = [pc EXCEPT ![r] = "done"]
    /\ UNCHANGED <<form, cookies, now, jar>>

ValidateToken(r) ==
    /\ pc[r] = "submit"
    /\ ret' = [ret EXCEPT ![r] = [op |-> "validate", token |-> <<>>, err |-> ValidateCSRFToken(r)]]
    /\ pc' = [pc EXCEPT ![r] = "done"]
    /\ UNCHANGED <<form, cookies, respCookies, randErr, now, jar>>

\* the response is sent; the client keeps the token of the page and the cookie
Respond(r) ==
    /\ pc[r] = "done"
    /\ LET hs == CSRFHeaders(respCookies[r])
       IN jar' = IF ret[r].op = "issue" /\ ret[r].err = Nil /\ Len(hs) > 0
                    /\ Cardinality(jar) < MaxJar
                 THEN jar \cup {[field |-> ret[r].token, cookie |-> hs[Len(hs)].value]}
                 ELSE jar
    /\ pc' = [pc EXCEPT ![r] = "idle"]
    /\ form' = [form EXCEPT ![r] = <<>>]
    /\ cookies' = [cookies EXCEPT ![r] = <<>>]
    /\ respCookies' = [respCookies EXCEPT ![r] = <<>>]
    /\ randErr' = [randErr EXCEPT ![r] = FALSE]
    /\ ret' = [ret EXCEPT ![r] = NoReturn]
    /\ UNCHANGED now

Tick ==
    /\ now < MaxClock
    /\ now' = now + 1
    /\ UNCHANGED <<pc, form, cookies, respCookies, randErr, ret, jar>>

(***************************************************************************)
(* The route tables of main: each route is a pattern, the chain of         *)
(* middleware around its handler (outermost first) and the handler.        *)
(***************************************************************************)
HandlerFunc(h) == [chain |-> <<>>, handler |-> h]

Authenticate(next) == [chain |-> <<"Authenticate">> \o next.chain, handler |-> next.handler]

AdminOnly(next) == [chain |-> <<"AdminOnly">> \o next.chain, handler |-> next.handler]

CORS(next) == [chain |-> <<"CORS">> \o next.chain, handler |-> next.handler]

Handle(pattern, h) == [pattern |-> pattern, chain |-> h.chain, handler |-> h.handler]

\* main of the current version
MainRoutes ==
    << Handle("/favicon.ico", HandlerFunc("http.NotFound")),
       Handle("/", HandlerFunc("adminHandler.Root")),
       Handle("/admin/register", HandlerFunc("adminHandler.Register")),
       Handle("/admin/login", HandlerFunc("adminHandler.Login")),
       Handle("/admin/logout", Authenticate(HandlerFunc("adminHandler.Logout"))),
       Handle("/admin/dashboard", Authenticate(HandlerFunc("adminHandler.Dashboard"))),
       Handle("/admin/dashboard/pending-farmers", Authenticate(AdminOnly(HandlerFunc("farmerHandler.ListPendingFarmers")))),
       Handle("/admin/dashboard/farmer-profile", Authenticate(AdminOnly(HandlerFunc("farmerHandler.ViewFarmerProfile")))),
       Handle("/admin/dashboard/approve-farmer", Authenticate(AdminOnly(HandlerFunc("farmerHandler.ApproveFarmer")))),
       Handle("/admin/dashboard/reject-farmer", Authenticate(AdminOnly(HandlerFunc("farmerHandler.RejectFarmer")))),
       Handle("/admin/users", Authenticate(AdminOnly(HandlerFunc("adminHandler.ListUsers")))),
       Handle("/admin/users/toggle-farmer-status", Authenticate(AdminOnly(HandlerFunc("farmerHandler.ToggleFarmerStatus")))),
       Handle("/admin/users/edit-farmer", Authenticate(AdminOnly(HandlerFunc("farmerHandler.EditFarmer")))),
       Handle("/admin/users/delete-farmer", Authenticate(AdminOnly(HandlerFunc("farmerHandler.DeleteFarmer")))),
       Handle("/admin/users/toggle-buyer-status", Authenticate(AdminOnly(HandlerFunc("buyerHandler.ToggleBuyerStatus")))),
       Handle("/admin/users/edit-buyer", Authenticate(AdminOnly(HandlerFunc("buyerHandler.EditBuyer")))),
       Handle("/admin/users/delete-buyer", Authenticate(AdminOnly(HandlerFunc("buyerHandler.DeleteBuyer")))),
       Handle("/buyer/register", CORS(HandlerFunc("buyerHandler.Register"))),
       Handle("/buyer/login", CORS(HandlerFunc("buyerHandler.Login"))),
       Handle("/buyer/logout", CORS(Authenticate(HandlerFunc("buyerHandler.Logout")))),
       Handle("/buyer/home", CORS(Authenticate(HandlerFunc("buyerHandler.Home")))),
       Handle("/buyer/product/", CORS(HandlerFunc("productHandler.GetProductDetails"))),
       Handle("/cart", CORS(Authenticate(HandlerFunc("cartHandler.GetCart")))),
       Handle("/cart/add", CORS(Authenticate(HandlerFunc("cartHandler.AddToCart")))),
       Handle("/cart/remove/", CORS(Authenticate(HandlerFunc("cartHandler.RemoveFromCart")))),
       Handle("/cart/update", CORS(Authenticate(HandlerFunc("cartHandler.UpdateCart")))),
       Handle("/checkout", CORS(Authenticate(HandlerFunc("cartHandler.Checkout")))),
       Handle("/farmer/register", CORS(HandlerFunc("farmerHandler.Register"))),
       Handle("/farmer/login", CORS(HandlerFunc("farmerHandler.Login"))),
       Handle("/farmer/logout", CORS(Authenticate(HandlerFunc("farmerHandler.Logout")))),
       Handle("/farmer/dashboard", CORS(Authenticate(HandlerFunc("farmerHandler.Dashboard")))),
       Handle("/farmer/product/add-product", CORS(Authenticate(HandlerFunc("farmerHandler.AddProduct")))),
       Handle("/farmer/product/list-products", CORS(Authenticate(HandlerFunc("farmerHandler.ListProducts")))),
       Handle("/farmer/product/edit-product", CORS(Authenticate(HandlerFunc("farmerHandler.EditProduct")))),
       Handle("/farmer/product/delete-product", CORS(Authenticate(HandlerFunc("farmerHandler.DeleteProduct")))) >>

\* main of the earlier version
MainRoutesEarlier ==
    << Handle("/favicon.ico", HandlerFunc("http.NotFound")),
       Handle("/register", HandlerFunc("adminHandler.Register")),
       Handle("/login", HandlerFunc("adminHandler.Login")),
       Handle("/logout", Authenticate(HandlerFunc("adminHandler.Logout"))),
       Handle("/dashboard", Authenticate(HandlerFunc("adminHandler.Dashboard"))),
       Handle("/dashboard/pending-farmers", Authenticate(AdminOnly(HandlerFunc("farmerHandler.ListPendingFarmers")))),
       Handle("/dashboard/farmer-profile", Authenticate(AdminOnly(HandlerFunc("farmerHandler.ViewFarmerProfile")))),
       Handle("/dashboard/approve-farmer", Authenticate(AdminOnly(HandlerFunc("farmerHandler.ApproveFarmer")))),
       Handle("/dashboard/reject-farmer", Authenticate(AdminOnly(HandlerFunc("farmerHandler.RejectFarmer")))),
       Handle("/admin/users", Authenticate(AdminOnly(HandlerFunc("adminHandler.ListUsers")))),
       Handle("/admin/users/toggle-farmer-status", Authenticate(AdminOnly(HandlerFunc("farmerHandler.ToggleFarmerStatus")))),
       Handle("/admin/users/edit-farmer", Authenticate(AdminOnly(HandlerFunc("farmerHandler.EditFarmer")))),
       Handle("/admin/users/delete-farmer", Authenticate(AdminOnly(HandlerFunc("farmerHandler.DeleteFarmer")))),
       Handle("/admin/users/toggle-buyer-status", Authenticate(AdminOnly(HandlerFunc("buyerHandler.ToggleBuyerStatus")))),
       Handle("/admin/users/edit-buyer", Authenticate(AdminOnly(HandlerFunc("buyerHandler.EditBuyer")))),
       Handle("/admin/users/delete-buyer", Authenticate(AdminOnly(HandlerFunc("buyerHandler.DeleteBuyer")))),
       Handle("/buyer/register", CORS(HandlerFunc("buyerHandler.Register"))),
       Handle("/buyer/login", CORS(HandlerFunc("buyerHandler.Login"))),
       Handle("/buyer/logout", CORS(Authenticate(HandlerFunc("buyerHandler.Logout")))),
       Handle("/farmer/register", CORS(HandlerFunc("farmerHandler.Register"))),
       Handle("/farmer/login", CORS(HandlerFunc("farmerHandler.Login"))),
       Handle("/farmer/logout", CORS(Authenticate(HandlerFunc("farmerHandler.Logout")))) >>

Versions == {"current", "earlier"}

Registered(v) == IF v = "current" THEN MainRoutes ELSE MainRoutesEarlier

\* the role check wrapped outside the authentication: AdminOnly(Authenticate(h))
DefaultServeMux_RoleFirst(v) ==
    [i \in DOMAIN Registered(v) |->
        LET rt == Registered(v)[i]
            n == Len(rt.chain)
        IN IF n >= 2 /\ rt.chain[n] = "AdminOnly"
           THEN [rt EXCEPT !.chain = [rt.chain EXCEPT ![n - 1] = "AdminOnly", ![n] = "Authenticate"]]
           ELSE rt]

\* the role check left out of the admin management routes: Authenticate(h)
DefaultServeMux_NoRoleCheck(v) ==
    [i \in DOMAIN Registered(v) |->
        LET rt == Registered(v)[i]
        IN [rt EXCEPT !.chain = SelectSeq(rt.chain, LAMBDA m : m # "AdminOnly")]]

\* http.DefaultServeMux after main has registered its routes
DefaultServeMux(v) == Registered(v)

(***************************************************************************)
(* The session store and a request running through the chain of its route. *)
(***************************************************************************)
Roles == {"admin", "farmer", "buyer"}
\* user identifiers are 1..MaxUsers
MaxUsers == 2
SessionIDs == {"s1", "s2"}
Identities == [userID : 1..MaxUsers, role : Roles]

NoCookie == "no cookie"
\* what the store holds, and Lookup returns, for a session: (userID, role, ok)
Live(id) == [userID |-> id.userID, role |-> id.role, ok |-> TRUE]
NoSession == [userID |-> 0, role |-> "", ok |-> FALSE]
\* no lookup was made for the request
NoLookup == [userID |-> 0, role |-> "none", ok |-> FALSE]
NoIdentity == [userID |-> 0, role |-> ""]

\* Session Store Adapter: Lookup(sessionID) -> (userID, role, ok)
Lookup(sid) == sessions[sid]
NoRequest == [route |-> 0, sid |-> NoCookie]

LayerNames == {"CORS", "Authenticate", "AdminOnly", "Handler"}
NoCalls == [m \in LayerNames |-> 0]

StatusUnauthorized == 401
StatusForbidden == 403
StatusInternalServerError == 500
StatusOK == 200

Route == DefaultServeMux(table)[areq.route]

\* the layer the request is at: a middleware of the chain, or the handler after it
Current ==
    IF layer <= Len(Route.chain) THEN Route.chain[layer] ELSE "Handler"

AuthInit ==
    /\ table \in Versions
    /\ sessions = [s \in SessionIDs |-> NoSession]
    /\ apc = "idle"
    /\ areq = NoRequest
    /\ layer = 0
    /\ authState = "Unauthenticated"
    /\ authHist = <<>>
    /\ lookup = NoLookup
    /\ identity = NoIdentity
    /\ status = 0
    /\ calls = NoCalls

\* login: the store gets a session
CreateSession ==
    /\ \E s \in SessionIDs, id \in Identities :
          /\ sessions[s] = NoSession
          /\ sessions' = [sessions EXCEPT ![s] = Live(id)]
    /\ UNCHANGED <<table, apc, areq, layer, authState, authHist, lookup, identity, status, calls>>

\* logout or expiry: the store loses a session
EndSession ==
    /\ \E s \in SessionIDs :
          /\ sessions[s] # NoSession
          /\ sessions' = [sessions EXCEPT ![s] = NoSession]
    /\ UNCHANGED <<table, apc, areq, layer, authState, authHist, lookup, identity, status, calls>>

\* the mux hands a request to the outermost layer of its route
Dispatch ==
    /\ apc = "idle"
    /\ \E i \in DOMAIN DefaultServeMux(table), c \in SessionIDs \cup {NoCookie} :
          areq' = [route |-> i, sid |-> c]
    /\ apc' = "serve"
    /\ layer' = 1
    /\ authState' = "Unauthenticated"
    /\ authHist' = <<"Unauthenticated">>
    /\ lookup' = NoLookup
    /\ identity' = NoIdentity
    /\ status' = 0
    /\ calls' = NoCalls
    /\ UNCHANGED <<table, sessions>>

CORSServe ==
    /\ apc = "serve"
    /\ Current = "CORS"
    /\ calls' = [calls EXCEPT !["CORS"] = @ + 1]
    /\ layer' = layer + 1
    /\ UNCHANGED <<table, sessions, apc, areq, authState, authHist, lookup, identity, status>>

\* Authenticate reads the session cookie: 401 without one
AuthenticateExtract ==
    /\ apc = "serve"
    /\ Current = "Authenticate"
    /\ calls' = [calls EXCEPT !["Authenticate"] = @ + 1]
    /\ IF areq.sid = NoCookie
       THEN /\ authState' = "Rejected"
            /\ authHist' = Append(authHist, "Rejected")
            /\ status' = StatusUnauthorized
            /\ apc' = "done"
       ELSE /\ authState' = "SessionLookupPending"
            /\ authHist' = Append(authHist, "SessionLookupPending")
            /\ status' = status
            /\ apc' = "lookup"
    /\ UNCHANGED <<table, sessions, areq, layer, lookup, identity>>

\* Authenticate gets the answer of the store: 401 when not found or expired,
\* else the identity is attached and the wrapped handler runs
AuthenticateLookup ==
    /\ apc = "lookup"
    /\ lookup' = Lookup(areq.sid)
    /\ IF ~Lookup(areq.sid).ok
       THEN /\ authState' = "Rejected"
            /\ authHist' = Append(authHist, "Rejected")
            /\ status' = StatusUnauthorized
            /\ apc' = "done"
            /\ UNCHANGED <<identity, layer>>
       ELSE /\ authState' = "Authenticated"
            /\ authHist' = Append(authHist, "Authenticated")
            /\ identity' = [userID |-> Lookup(areq.sid).userID, role |-> Lookup(areq.sid).role]
            /\ layer' = layer + 1
            /\ apc' = "serve"
            /\ status' = status
    /\ UNCHANGED <<table, sessions, areq, calls>>

\* AdminOnly: 403 unless the attached identity is an admin
AdminOnlyServe ==
    /\ apc = "serve"
    /\ Current = "AdminOnly"
    /\ calls' = [calls EXCEPT !["AdminOnly"] = @ + 1]
    /\ IF identity = NoIdentity
       THEN /\ status' = StatusInternalServerError
            /\ apc' = "done"
            /\ layer' = layer
       ELSE IF identity.role # "admin"
       THEN /\ status' = StatusForbidden
            /\ apc' = "done"
            /\ layer' = layer
       ELSE /\ status' = status
            /\ apc' = apc
            /\ layer' = layer + 1
    /\ UNCHANGED <<table, sessions, areq, authState, authHist, lookup, identity>>

\* the domain handler of the route runs
HandlerServe ==
    /\ apc = "serve"
    /\ Current = "Handler"
    /\ calls' = [calls EXCEPT !["Handler"] = @ + 1]
    /\ status' = StatusOK
    /\ apc' = "done"
    /\ UNCHANGED <<table, sessions, areq, layer, authState, authHist, lookup, identity>>

\* the response is sent
Finish ==
    /\ apc = "done"
    /\ apc' = "idle"
    /\ areq' = NoRequest
    /\ layer' = 0
    /\ authState' = "Unauthenticated"
    /\ authHist' = <<>>
    /\ lookup' = NoLookup
    /\ identity' = NoIdentity
    /\ status' = 0
    /\ calls' = NoCalls
    /\ UNCHANGED <<table, sessions>>

(***************************************************************************)
(* Specifications: Spec runs the CSRF guard on concurrent requests,        *)
(* SpecAuth runs a request through the middleware of its route while the   *)
(* session store changes.                                                  *)
(***************************************************************************)
AuthIdle ==
    /\ table = "current"
    /\ sessions = [s \in SessionIDs |-> NoSession]
    /\ apc = "idle"
    /\ areq = NoRequest
    /\ layer = 0
    /\ authState = "Unauthenticated"
    /\ authHist = <<>>
    /\ lookup = NoLookup
    /\ identity = NoIdentity
    /\ status = 0
    /\ calls = NoCalls

Init == CSRFInit /\ AuthIdle

Next ==
    \/ \E r \in Requests : ReceiveGet(r) /\ UNCHANGED authVars
    \/ \E r \in Requests : ReceivePost(r) /\ UNCHANGED authVars
    \/ \E r \in Requests : IssueToken(r) /\ UNCHANGED authVars
    \/ \E r \in Requests : ValidateToken(r) /\ UNCHANGED authVars
    \/ \E r \in Requests : Respond(r) /\ UNCHANGED authVars
    \/ Tick /\ UNCHANGED authVars

Spec == Init /\ [][Next]_vars

InitAuth == CSRFInit /\ AuthInit

NextAuth ==
    \/ CreateSession /\ UNCHANGED csrfVars
    \/ EndSession /\ UNCHANGED csrfVars
    \/ Dispatch /\ UNCHANGED csrfVars
    \/ CORSServe /\ UNCHANGED csrfVars
    \/ AuthenticateExtract /\ UNCHANGED csrfVars
    \/ AuthenticateLookup /\ UNCHANGED csrfVars
    \/ AdminOnlyServe /\ UNCHANGED csrfVars
    \/ HandlerServe /\ UNCHANGED csrfVars
    \/ Finish /\ UNCHANGED csrfVars

SpecAuth == InitAuth /\ [][NextAuth]_vars

(***************************************************************************)
(* Properties of the CSRF guard, checked under Spec.                       *)
(***************************************************************************)
Validated(r) == ret[r].op = "validate"

Issued(r) == ret[r].op = "issue"

\* the form field csrf_token is absent or empty
FieldMissing(r) == Len(form[r]) = 0 \/ Len(form[r][1]) = 0

\* the request has a csrf_token cookie
CookiePresent(r) == RequestCookie(cookies[r], CSRFName).found

CookieValue(r) == RequestCookie(cookies[r], CSRFName).value

\* a and b have the same length and differ in exactly one byte
OneByteOff(a, b) ==
    /\ Len(a) = Len(b)
    /\ Cardinality({i \in 1..Len(a) : a[i] # b[i]}) = 1

\* C1: ValidateCSRFToken returns exactly one of four outcomes: the missing-field
\* error when the form field is absent or empty, else the missing-cookie error
\* when the cookie is absent, else the mismatch error when the two values
\* differ, and nil only when the field is non-empty, the cookie is present and
\* the two values are equal.
C1_FourOutcomes ==
    \A r \in Requests :
        Validated(r) =>
            /\ ret[r].err \in {Nil, ErrNotProvided, ErrCookieNotFound, ErrInvalid}
            /\ FieldMissing(r) => ret[r].err = ErrNotProvided
            /\ (~FieldMissing(r) /\ ~CookiePresent(r)) => ret[r].err = ErrCookieNotFound
            /\ (~FieldMissing(r) /\ CookiePresent(r) /\ form[r][1] # CookieValue(r))
                  => ret[r].err = ErrInvalid
            /\ ret[r].err = Nil <=>
                  (~FieldMissing(r) /\ CookiePresent(r) /\ form[r][1] = CookieValue(r))

\* two finished validations: one of a mismatching pair, one without a cookie
C1_Witness ==
    \E r1, r2 \in Requests :
        /\ Validated(r1) /\ ret[r1].err = ErrInvalid
        /\ form[r1] = <<xyz>> /\ CookiePresent(r1) /\ CookieValue(r1) = abc
        /\ Validated(r2) /\ ret[r2].err = ErrCookieNotFound
        /\ ~FieldMissing(r2) /\ ~CookiePresent(r2)

C7_IssuedCookie ==
    [][\A r \in Requests :
          (pc[r] = "render" /\ pc'[r] = "done" /\ ret'[r].err = Nil) =>
              /\ ret'[r].token # <<>>
              /\ respCookies'[r] =
                    Append(respCookies[r],
                           [name |-> "csrf_token", value |-> ret'[r].token,
                            path |-> "/", expires |-> now + 24 * 60 * 60,
                            httpOnly |-> TRUE, secure |-> TRUE, sameSite |-> "None"])]_vars

\* a token issued, at a time after 0, on a response that already had a cookie
C7_Witness ==
    \E r \in Requests :
        /\ Issued(r) /\ ret[r].err = Nil /\ pc[r] = "done"
        /\ Len(respCookies[r]) = 2
        /\ respCookies[r][2].name = CSRFName
        /\ respCookies[r][2].expires > 24 * 60 * 60

\* C8: when rand.Read fails, SetCSRFToken returns the error of the random
\* source with an empty token and leaves the response headers as they were:
\* no csrf_token cookie is set and no other token is issued.
C8_RandomSourceError ==
    [][\A r \in Requests :
          (pc[r] = "render" /\ pc'[r] = "done" /\ randErr'[r]) =>
              /\ ret'[r].err = ErrRand
              /\ ret'[r].token = <<>>
              /\ respCookies'[r] = respCookies[r]]_vars

\* the random source failed on a response that already had a cookie
C8_Witness ==
    \E r \in Requests :
        /\ Issued(r) /\ randErr[r] /\ pc[r] = "done"
        /\ ret[r].err = ErrRand
        /\ Len(respCookies[r]) = 1

\* C9: validation is stateless: two requests with the same csrf_token form
\* value and the same csrf_token cookie get the same outcome, whatever was
\* issued or validated before and whatever the other requests do.
C9_Stateless ==
    \A r1, r2 \in Requests :
        (Validated(r1) /\ Validated(r2)
           /\ FormValue(form[r1]) = FormValue(form[r2])
           /\ CookiePresent(r1) = CookiePresent(r2)
           /\ CookieValue(r1) = CookieValue(r2))
            => ret[r1].err = ret[r2].err

\* the same issued pair validated by two requests, both with success
C9_Witness ==
    \E r1, r2 \in Requests : \E p \in jar :
        /\ r1 # r2
        /\ Validated(r1) /\ Validated(r2)
        /\ form[r1] = <<p.field>> /\ form[r2] = <<p.field>>
        /\ cookies[r1] = <<Ck(CSRFName, p.cookie)>> /\ cookies[r2] = cookies[r1]
        /\ ret[r1].err = Nil /\ ret[r2].err = Nil

\* C10: the form field is checked before the cookie: with the field absent or
\* empty the result is the missing-field error whether the cookie is absent,
\* present or present with an empty value, and the missing-cookie error is
\* returned only when the form field is non-empty.
C10_FieldBeforeCookie ==
    \A r \in Requests :
        Validated(r) =>
            /\ FieldMissing(r) => ret[r].err = ErrNotProvided
            /\ ret[r].err = ErrCookieNotFound => ~FieldMissing(r)

\* the field missing on a request without a cookie and on one with an empty cookie
C10_Witness ==
    \E r1, r2 \in Requests :
        /\ Validated(r1) /\ FieldMissing(r1) /\ cookies[r1] = <<>>
        /\ ret[r1].err = ErrNotProvided
        /\ Validated(r2) /\ FieldMissing(r2) /\ cookies[r2] = <<Ck(CSRFName, empty)>>
        /\ ret[r2].err = ErrNotProvided

(***************************************************************************)
(* Properties of the middleware chain, checked under SpecAuth.             *)
(***************************************************************************)
InFlight == apc # "idle"

HasLayer(rt, m) == \E i \in DOMAIN rt.chain : rt.chain[i] = m

\* the layers a route runs after its Authenticate: inner middleware and the handler
Inner(rt) ==
    {rt.chain[j] : j \in {k \in DOMAIN rt.chain :
                             \E i \in DOMAIN rt.chain : i < k /\ rt.chain[i] = "Authenticate"}}
       \cup {"Handler"}

\* the handler Authenticate wraps on a route: the layer right after it
Wrapped(rt) ==
    LET i == CHOOSE k \in DOMAIN rt.chain : rt.chain[k] = "Authenticate"
    IN IF i < Len(rt.chain) THEN rt.chain[i + 1] ELSE "Handler"

\* the store answered the lookup of the request with ok = false
LookupFailed == lookup # NoLookup /\ ~lookup.ok

\* the handlers of the admin management routes
AdminManagementHandlers ==
    {"farmerHandler.ListPendingFarmers", "farmerHandler.ViewFarmerProfile",
     "farmerHandler.ApproveFarmer", "farmerHandler.RejectFarmer",
     "adminHandler.ListUsers",
     "farmerHandler.ToggleFarmerStatus", "farmerHandler.EditFarmer",
     "farmerHandler.DeleteFarmer",
     "buyerHandler.ToggleBuyerStatus", "buyerHandler.EditBuyer",
     "buyerHandler.DeleteBuyer"}

\* C3: on a route wrapped by Authenticate, a request without a session cookie,
\* or whose session the store reports as not found or expired, is answered
\* 401, and neither the wrapped handler nor an inner middleware runs for it.
C3_Unauthenticated401 ==
    (InFlight /\ HasLayer(Route, "Authenticate")
       /\ (areq.sid = NoCookie \/ LookupFailed)) =>
        /\ \A m \in Inner(Route) : calls[m] = 0
        /\ apc = "done" => status = 401

\* a request with a cookie of an unknown session, answered on an admin route
C3_Witness ==
    /\ apc = "done"
    /\ HasLayer(Route, "AdminOnly")
    /\ areq.sid # NoCookie
    /\ LookupFailed
    /\ status = 401
    /\ calls["Authenticate"] = 1

\* C4: a request whose attached identity has a role other than admin is
\* answered 403 on the admin management routes (the routes under AdminOnly),
\* and their handler does not run.
C4_RoleMismatch403 ==
    (InFlight /\ identity # NoIdentity /\ identity.role # "admin"
       /\ (Route.handler \in AdminManagementHandlers \/ HasLayer(Route, "AdminOnly"))) =>
        /\ calls["Handler"] = 0
        /\ apc = "done" => status = 403

\* an authenticated farmer answered 403 on an admin management route
C4_Witness ==
    /\ apc = "done"
    /\ Route.handler = "buyerHandler.DeleteBuyer"
    /\ authState = "Authenticated"
    /\ identity.role = "farmer"
    /\ status = 403
    /\ calls["AdminOnly"] = 1

\* C5: a finished request with a session the store did not report as missing,
\* on a route wrapped by Authenticate, went Unauthenticated ->
\* SessionLookupPending -> Authenticated; the handler Authenticate wraps ran
\* exactly once, and the identity attached is the one the lookup returned.
C5_ValidSessionOnce ==
    (apc = "done" /\ HasLayer(Route, "Authenticate")
       /\ areq.sid # NoCookie /\ ~LookupFailed) =>
        /\ authHist = <<"Unauthenticated", "SessionLookupPending", "Authenticated">>
        /\ lookup.ok
        /\ identity = [userID |-> lookup.userID, role |-> lookup.role]
        /\ calls["Authenticate"] = 1
        /\ calls[Wrapped(Route)] = 1

\* a buyer's request finished by the handler, after the session was ended
C5_Witness ==
    /\ apc = "done"
    /\ Route.handler = "buyerHandler.Logout"
    /\ lookup.ok
    /\ identity.role = "buyer"
    /\ ~sessions[areq.sid].ok
    /\ calls["Handler"] = 1
    /\ status = 200

Rank(m) == IF m = "CORS" THEN 1 ELSE IF m = "Authenticate" THEN 2 ELSE 3

\* the layers of a chain come in the order CORS, Authenticate, AdminOnly, and
\* AdminOnly has Authenticate outside it
Ordered(chain) ==
    /\ \A i, j \in DOMAIN chain : i < j => Rank(chain[i]) < Rank(chain[j])
    /\ \A j \in DOMAIN chain :
          chain[j] = "AdminOnly" => \E i \in DOMAIN chain : i < j /\ chain[i] = "Authenticate"

\* C6: in both route tables the middleware of every route comes in the order
\* CORS, Authenticate, AdminOnly, with Authenticate outside every AdminOnly;
\* so AdminOnly only runs on an authenticated request with an identity
\* attached, and no request ends with the identity missing (500).
C6_MiddlewareOrder ==
    /\ \A v \in Versions : \A i \in DOMAIN DefaultServeMux(v) :
          Ordered(DefaultServeMux(v)[i].chain)
    /\ calls["AdminOnly"] > 0 => (authState = "Authenticated" /\ identity # NoIdentity)
    /\ status # 500

\* an admin's request through Authenticate and AdminOnly to the handler, in the
\* earlier route table
C6_Witness ==
    /\ table = "earlier"
    /\ apc = "done"
    /\ Route.chain = <<"Authenticate", "AdminOnly">>
    /\ calls["Authenticate"] = 1 /\ calls["AdminOnly"] = 1 /\ calls["Handler"] = 1
    /\ identity.role = "admin"
    /\ status = 200

====
